---------------------------- MODULE Spec2Model ----------------------------
(***************************************************************************)
(* Geodesic Y (open_spiel/games/geodesic_y): the board-topology generator, *)
(* the edge classifier, the union-find board and the game engine.          *)
(***************************************************************************)
EXTENDS Integers, Sequences, FiniteSets, TLC

VARIABLES
  st,    \* the GeodesicYState object (with the State base class' history_)
  gen,   \* the local state of one run of generateNeighbors
  call,  \* the last call of a pure function made on its own
  game,  \* the parameters of the GeodesicYGame object that created st
  cache, \* the process-wide neighbors_list and its capacity
  thr,   \* per thread: its position in the creation of a state
  objs,  \* the neighbors_ references of the states the threads created
  calls  \* per base_size: the calls of generateNeighbors made by the cache

vars == <<st, gen, call, game, cache, thr, objs, calls>>

procVars == <<cache, thr, objs, calls>>

(***************************************************************************)
(* Bounds of the model.                                                    *)
(***************************************************************************)
\* largest base_size the topology generator is run on
MaxBaseSize == 5
\* longest move history explored by the game engine specification
MaxMoves == 3
\* base sizes on which games are played
GameSizes == {2, 3}
\* largest base_size parameter boardSize is called with on its own
MaxCallBase == 210
\* largest base_size parameter of the games the threads create
MaxCacheBase == 3
\* states one thread creates
MaxCreates == 2
\* clones made of the created states
MaxClones == 1

(***************************************************************************)
(* Types and enumerations (geodesic_y.h).                                  *)
(***************************************************************************)
\* using Node = uint16_t
U16(x) == x % 65536

kPlayer1 == 0
kPlayer2 == 1
kPlayerNone == 2

kNone == 0
kRight == 1
kBottom == 2
kLeft == 4

\* bitwise or of two edge masks (uint8_t operator|)
BitOr(a, b) ==
  (IF (a % 2 = 1) \/ (b % 2 = 1) THEN 1 ELSE 0)
  + (IF ((a \div 2) % 2 = 1) \/ ((b \div 2) % 2 = 1) THEN 2 ELSE 0)
  + (IF ((a \div 4) % 2 = 1) \/ ((b \div 4) % 2 = 1) THEN 4 ELSE 0)

\* constexpr Node boardSize(uint16_t base_size)
boardSize(base_size) == U16((3 * base_size * (base_size - 1)) \div 2)

topNode(base_size) == boardSize(U16(base_size - 1))

rightNode(base_size) == U16(topNode(base_size) + base_size - 1)

leftNode(base_size) == U16(rightNode(base_size) + base_size - 1)

(***************************************************************************)
(* generateNeighbors: the adjacency list under construction is a function  *)
(* from node to the sequence of nodes pushed so far.                       *)
(***************************************************************************)
PushBack(nb, i, v) == [nb EXCEPT ![i] = Append(@, v)]

\* neighbors.resize(board_size) and the three links of the inner triangle
SeedTriangle(base_size) ==
  LET empty == [n \in 0..(boardSize(base_size) - 1) |-> <<>>]
  IN  PushBack(PushBack(PushBack(empty, 0, 1), 1, 2), 2, 0)

\* which branch of the if/else-if chain of the ring loop a cell takes
CellCase(ring, cell) ==
  LET top   == topNode(ring)
      right == rightNode(ring)
      left  == leftNode(ring)
      last  == U16(topNode(ring + 1) - 1)
  IN  IF cell = top THEN "top"
      ELSE IF (top < cell) /\ (cell < right) THEN "top_right"
      ELSE IF cell = right THEN "right"
      ELSE IF (right < cell) /\ (cell < left) THEN "right_left"
      ELSE IF cell = left THEN "left"
      ELSE IF cell < last THEN "left_last"
      ELSE IF cell = last THEN "last"
      ELSE "unknown"

\* mutant of ClockwiseLink: the last cell of a ring does not wrap to the top
ClockwiseLink_NoWrap(nb, ring, cell) == PushBack(nb, cell, U16(cell + 1))

\* the clockwise link of one cell
ClockwiseLink(nb, ring, cell) ==
  LET top  == topNode(ring)
      last == U16(topNode(ring + 1) - 1)
  IN  IF cell = last THEN PushBack(nb, cell, top)
      ELSE PushBack(nb, cell, U16(cell + 1))

\* the links of one cell to the ring below
InwardLinks(nb, ring, cell) ==
  LET top         == topNode(ring)
      right       == rightNode(ring)
      left        == leftNode(ring)
      top_below   == topNode(ring - 1)
      right_below == rightNode(ring - 1)
      left_below  == leftNode(ring - 1)
      c           == CellCase(ring, cell)
  IN  CASE c = "top" -> PushBack(nb, cell, top_below)
        [] c = "top_right" ->
             LET nhbr == U16(top_below + cell - top)
             IN  PushBack(PushBack(nb, cell, U16(nhbr - 1)), cell, nhbr)
        [] c = "right" -> PushBack(nb, cell, right_below)
        [] c = "right_left" ->
             LET nhbr == U16(right_below + cell - right)
             IN  PushBack(PushBack(nb, cell, U16(nhbr - 1)), cell, nhbr)
        [] c = "left" -> PushBack(nb, cell, left_below)
        [] c = "left_last" ->
             LET nhbr == U16(left_below + cell - left)
             IN  PushBack(PushBack(nb, cell, U16(nhbr - 1)), cell, nhbr)
        [] c = "last" ->
             LET nhbr == U16(left_below + cell - left)
             IN  PushBack(PushBack(nb, cell, U16(nhbr - 1)), cell, top_below)
        [] OTHER -> nb   \* throw std::runtime_error("unknown cell")

\* one iteration of the inner loop (for cell = top; cell < ring_size)
CellBody(nb, ring, cell) == InwardLinks(ClockwiseLink(nb, ring, cell), ring, cell)

RECURSIVE CellLoop(_, _, _)
CellLoop(nb, ring, cell) ==
  IF cell < topNode(ring + 1)
    THEN CellLoop(CellBody(nb, ring, cell), ring, cell + 1)
    ELSE nb

\* for (ring = 3; ring <= base_size; ++ring)
RECURSIVE RingLoop(_, _, _)
RingLoop(nb, ring, base_size) ==
  IF ring <= base_size
    THEN RingLoop(CellLoop(nb, ring, topNode(ring)), ring + 1, base_size)
    ELSE nb

\* mutant of MirrorNode: the mirrored link is never recorded
MirrorNode_NoMirror(sym, nb, i, k) == sym

\* one iteration of the mirroring loop: for (Node j : neighbors.at(i))
RECURSIVE MirrorNode(_, _, _, _)
MirrorNode(sym, nb, i, k) ==
  IF k > Len(nb[i]) THEN sym
  ELSE MirrorNode(PushBack(sym, nb[i][k], i), nb, i, k + 1)

RECURSIVE MirrorLoop(_, _, _)
MirrorLoop(sym, nb, i) ==
  IF i < Cardinality(DOMAIN nb)
    THEN MirrorLoop(MirrorNode(sym, nb, i, 1), nb, i + 1)
    ELSE sym

\* mutant of SortAll: the vectors are left in the order of the pushes
SortAll_Unsorted(sym) == sym

\* std::sort of every neighbour vector
SortAll(sym) == [n \in DOMAIN sym |-> SortSeq(sym[n], LAMBDA x, y : x < y)]

generateNeighbors(base_size) ==
  LET neighbors == RingLoop(SeedTriangle(base_size), 3, base_size)
      symmetric == MirrorLoop(neighbors, neighbors, 0)
  IN  SortAll(symmetric)

(***************************************************************************)
(* One run of generateNeighbors, a loop iteration per step.                *)
(***************************************************************************)
GenIdle == [pc |-> "idle", base_size |-> 0, ring |-> 0, cell |-> 0, i |-> 0,
            neighbors |-> <<>>, symmetric |-> <<>>]

GenCall(base_size) ==
  [pc |-> "rings", base_size |-> base_size, ring |-> 3, cell |-> topNode(3),
   i |-> 0, neighbors |-> SeedTriangle(base_size), symmetric |-> <<>>]

\* entry of generateNeighbors
GenStart ==
  /\ gen.pc = "idle"
  /\ \E b \in 2..MaxBaseSize : gen' = GenCall(b)
  /\ UNCHANGED <<st, call, game, procVars>>

\* one cell of the ring loop; the last branch of the chain throws
GenCell ==
  /\ gen.pc = "rings"
  /\ gen.ring <= gen.base_size
  /\ LET nb   == CellBody(gen.neighbors, gen.ring, gen.cell)
         next == gen.cell + 1
     IN  gen' = IF CellCase(gen.ring, gen.cell) = "unknown"
                  THEN [gen EXCEPT !.pc = "threw",
                                   !.neighbors = ClockwiseLink(@, gen.ring, gen.cell)]
                ELSE IF next < topNode(gen.ring + 1)
                  THEN [gen EXCEPT !.neighbors = nb, !.cell = next]
                  ELSE [gen EXCEPT !.neighbors = nb, !.ring = @ + 1,
                                   !.cell = topNode(gen.ring + 1)]
  /\ UNCHANGED <<st, call, game, procVars>>

\* Neighbors symmetric = neighbors
GenCopy ==
  /\ gen.pc = "rings"
  /\ gen.ring > gen.base_size
  /\ gen' = [gen EXCEPT !.pc = "mirror", !.symmetric = gen.neighbors, !.i = 0]
  /\ UNCHANGED <<st, call, game, procVars>>

\* one node of the mirroring loop
GenMirror ==
  /\ gen.pc = "mirror"
  /\ gen.i < Cardinality(DOMAIN gen.neighbors)
  /\ gen' = [gen EXCEPT !.symmetric = MirrorNode(@, gen.neighbors, gen.i, 1),
                        !.i = @ + 1]
  /\ UNCHANGED <<st, call, game, procVars>>

\* the sorting loop and the return
GenSort ==
  /\ gen.pc = "mirror"
  /\ gen.i >= Cardinality(DOMAIN gen.neighbors)
  /\ gen' = [gen EXCEPT !.pc = "done", !.symmetric = SortAll(@)]
  /\ UNCHANGED <<st, call, game, procVars>>


(***************************************************************************)
(* The adjacency list a state refers to (neighbors_), per base size.       *)
(***************************************************************************)
NeighborsTable == [b \in GameSizes |-> generateNeighbors(b)]

getNeighbors(base_size) == NeighborsTable[base_size]

\* mutant of getEdge: the top corner is not counted to the left edge
getEdge_TopNotLeft(node, base_size) ==
  LET top   == topNode(base_size)
      right == rightNode(base_size)
      left  == leftNode(base_size)
      e1    == IF (top <= node) /\ (node <= right) THEN BitOr(kNone, kRight) ELSE kNone
      e2    == IF (right <= node) /\ (node <= left) THEN BitOr(e1, kBottom) ELSE e1
  IN  IF left <= node THEN BitOr(e2, kLeft) ELSE e2

\* mutant of getEdge: every corner is counted to all three edges
getEdge_CornerAll(node, base_size) ==
  LET top   == topNode(base_size)
      right == rightNode(base_size)
      left  == leftNode(base_size)
  IN  IF node \in {top, right, left} THEN BitOr(BitOr(kRight, kBottom), kLeft)
      ELSE IF (top <= node) /\ (node <= right) THEN kRight
      ELSE IF (right <= node) /\ (node <= left) THEN kBottom
      ELSE IF left <= node THEN kLeft
      ELSE kNone

\* static Edge getEdge(Node node, uint16_t base_size)
getEdge(node, base_size) ==
  LET top   == topNode(base_size)
      right == rightNode(base_size)
      left  == leftNode(base_size)
      e1    == IF (top <= node) /\ (node <= right) THEN BitOr(kNone, kRight) ELSE kNone
      e2    == IF (right <= node) /\ (node <= left) THEN BitOr(e1, kBottom) ELSE e1
  IN  IF (left <= node) \/ (node = top) THEN BitOr(e2, kLeft) ELSE e2

AllEdges == BitOr(BitOr(kRight, kBottom), kLeft)

(***************************************************************************)
(* The board: an array of Cell, with the union-find embedded in it.        *)
(***************************************************************************)
\* Cell(GeodesicYPlayer player_, Node parent_, Edge edge_)
Cell(player_, parent_, edge_) ==
  [player |-> player_, parent |-> parent_, size |-> 1, edge |-> edge_]

\* the do/while loop of FindGroupLeader
RECURSIVE FollowChain(_, _)
FollowChain(board, parent) ==
  LET next == board[parent].parent
  IN  IF next # board[next].parent THEN FollowChain(board, next) ELSE next

\* the value FindGroupLeader returns
Leader(board, cell) ==
  LET parent == board[cell].parent
  IN  IF parent # cell THEN FollowChain(board, parent) ELSE parent

\* mutant of FindGroupLeader: the compressed cell's edge mask is cleared
FindGroupLeader_ClearsEdge(board, cell) ==
  IF board[cell].parent # cell
    THEN [board EXCEPT ![cell].parent = Leader(board, cell), ![cell].edge = kNone]
    ELSE board

\* the board FindGroupLeader leaves: the path of `cell` alone is compressed
FindGroupLeader(board, cell) ==
  IF board[cell].parent # cell
    THEN [board EXCEPT ![cell].parent = Leader(board, cell)]
    ELSE board

\* the value JoinGroups returns
AlreadyJoined(board, cell_a, cell_b) ==
  Leader(board, cell_a) = Leader(FindGroupLeader(board, cell_a), cell_b)

\* mutant of JoinGroups: the size of the joined group is not added
JoinGroups_NoSize(board, cell_a, cell_b) ==
  LET b1 == FindGroupLeader(board, cell_a)
      la == Leader(board, cell_a)
      b2 == FindGroupLeader(b1, cell_b)
      lb == Leader(b1, cell_b)
      swap == b2[la].size < b2[lb].size
      leader_a == IF swap THEN lb ELSE la
      leader_b == IF swap THEN la ELSE lb
  IN  IF la = lb THEN b2
      ELSE [b2 EXCEPT ![leader_b].parent = leader_a,
                      ![leader_a].edge = BitOr(b2[leader_a].edge, b2[leader_b].edge)]

\* mutant of JoinGroups: the leaders are never swapped, b always joins a
JoinGroups_NoSwap(board, cell_a, cell_b) ==
  LET b1 == FindGroupLeader(board, cell_a)
      la == Leader(board, cell_a)
      b2 == FindGroupLeader(b1, cell_b)
      lb == Leader(b1, cell_b)
  IN  IF la = lb THEN b2
      ELSE [b2 EXCEPT ![lb].parent = la,
                      ![la].size = U16(b2[la].size + b2[lb].size),
                      ![la].edge = BitOr(b2[la].edge, b2[lb].edge)]

\* mutant of JoinGroups: the edge mask of the joined group is not propagated
JoinGroups_NoEdge(board, cell_a, cell_b) ==
  LET b1 == FindGroupLeader(board, cell_a)
      la == Leader(board, cell_a)
      b2 == FindGroupLeader(b1, cell_b)
      lb == Leader(b1, cell_b)
      swap == b2[la].size < b2[lb].size
      leader_a == IF swap THEN lb ELSE la
      leader_b == IF swap THEN la ELSE lb
  IN  IF la = lb THEN b2
      ELSE [b2 EXCEPT ![leader_b].parent = leader_a,
                      ![leader_a].size = U16(b2[leader_a].size + b2[leader_b].size)]

\* the board JoinGroups leaves
JoinGroups(board, cell_a, cell_b) ==
  LET b1 == FindGroupLeader(board, cell_a)
      la == Leader(board, cell_a)
      b2 == FindGroupLeader(b1, cell_b)
      lb == Leader(b1, cell_b)
      swap == b2[la].size < b2[lb].size
      leader_a == IF swap THEN lb ELSE la
      leader_b == IF swap THEN la ELSE lb
  IN  IF la = lb THEN b2
      ELSE [b2 EXCEPT ![leader_b].parent = leader_a,
                      ![leader_a].size = U16(b2[leader_a].size + b2[leader_b].size),
                      ![leader_a].edge = BitOr(b2[leader_a].edge, b2[leader_b].edge)]

\* for (Node nhbr : neighbors_.at(cell)) if (board_.at(nhbr).player == player) JoinGroups
RECURSIVE JoinNeighbors(_, _, _, _, _)
JoinNeighbors(board, nbrs, player, cell, k) ==
  IF k > Len(nbrs) THEN board
  ELSE LET nhbr == nbrs[k]
           b    == IF board[nhbr].player = player
                     THEN JoinGroups(board, cell, nhbr)
                     ELSE board
       IN  JoinNeighbors(b, nbrs, player, cell, k + 1)

(***************************************************************************)
(* Construction parameters.                                                *)
(***************************************************************************)
\* static GeodesicYPlayer getStartingPlayer(const std::string& player_str)
getStartingPlayer(player_str) ==
  IF player_str = "black" THEN [player |-> kPlayer1, fatal |-> FALSE]
  ELSE IF player_str = "white" THEN [player |-> kPlayer2, fatal |-> FALSE]
  ELSE [player |-> kPlayerNone, fatal |-> TRUE]

\* getStartingBoard: the entries of board_str, split at spaces, are records
\* [player |-> first character, pos |-> the number after it]
RECURSIVE ParseEntries(_, _, _, _)
ParseEntries(board, split, k, board_size) ==
  IF k > Len(split) THEN [board |-> board, fatal |-> FALSE]
  ELSE LET str == split[k]
       IN  IF str.pos >= board_size THEN [board |-> board, fatal |-> TRUE]
           ELSE IF str.player = "B"
             THEN ParseEntries([board EXCEPT ![str.pos] = kPlayer1], split, k + 1, board_size)
           ELSE IF str.player = "W"
             THEN ParseEntries([board EXCEPT ![str.pos] = kPlayer2], split, k + 1, board_size)
           ELSE [board |-> board, fatal |-> TRUE]

getStartingBoard(base_size, split) ==
  LET board_size == boardSize(base_size)
  IN  ParseEntries([n \in 0..(board_size - 1) |-> kPlayerNone], split, 1, board_size)

(***************************************************************************)
(* GeodesicYState.  A state is a record of the object's members, the base  *)
(* class' history_ and `fatal`, set when SpielFatalError or a failed       *)
(* SPIEL_CHECK has ended the process; `undefined` is set when undefined    *)
(* behaviour has ended it.                                                 *)
(***************************************************************************)
Nodes(s) == 0..(boardSize(s.base_size) - 1)

\* for (Node i = 0; ...) board_.at(i) = Cell(kPlayerNone, i, getEdge(i, base_size))
EmptyBoard(base_size) ==
  [i \in 0..(boardSize(base_size) - 1) |-> Cell(kPlayerNone, i, getEdge(i, base_size))]

\* mutant of PlayCell: the check of the group's edges is missing
PlayCell_NoCheck(s, player, cell) ==
  LET b1 == [s.board EXCEPT ![cell].player = player]
      b2 == JoinNeighbors(b1, getNeighbors(s.base_size)[cell], player, cell, 1)
  IN  [s EXCEPT !.board = FindGroupLeader(b2, cell)]

\* void GeodesicYState::PlayCell(GeodesicYPlayer player, Node cell)
PlayCell(s, player, cell) ==
  LET b1 == [s.board EXCEPT ![cell].player = player]
      b2 == JoinNeighbors(b1, getNeighbors(s.base_size)[cell], player, cell, 1)
      b3 == FindGroupLeader(b2, cell)
  IN  [s EXCEPT !.board = b3,
                !.fatal = (b3[Leader(b2, cell)].edge = AllEdges)]

\* for (Node i = 0; ...) if (starting_board_.at(i) != kPlayerNone) PlayCell(player, i)
RECURSIVE PlaceStartingBoard(_, _)
PlaceStartingBoard(s, i) ==
  IF s.fatal \/ i >= boardSize(s.base_size) THEN s
  ELSE LET player == s.starting_board[i]
       IN  IF player # kPlayerNone
             THEN PlaceStartingBoard(PlayCell(s, player, i), i + 1)
             ELSE PlaceStartingBoard(s, i + 1)

\* the member initialisers and the body of GeodesicYState::GeodesicYState:
\* current_player_ keeps its default member initialiser, kPlayer1
Construct(base_size, starting_player_, starting_board_, fatal_) ==
  PlaceStartingBoard([base_size       |-> base_size,
                      starting_player |-> starting_player_,
                      starting_board  |-> starting_board_,
                      board           |-> EmptyBoard(base_size),
                      current_player  |-> kPlayer1,
                      outcome         |-> kPlayerNone,
                      moves_made      |-> 0,
                      last_move       |-> boardSize(base_size),
                      history         |-> <<>>,
                      fatal           |-> fatal_,
                      undefined       |-> FALSE], 0)

\* GeodesicYState::GeodesicYState with its parameters parsed
NewInitialState(base_size, starting_player, starting_board) ==
  LET sp == getStartingPlayer(starting_player)
      sb == getStartingBoard(base_size, starting_board)
  IN  Construct(base_size, sp.player, sb.board, sp.fatal \/ sb.fatal)

\* bool IsTerminal() const
IsTerminal(s) == s.outcome # kPlayerNone

\* Player CurrentPlayer() const (kTerminalPlayerId is -4)
CurrentPlayer(s) == IF IsTerminal(s) THEN -4 ELSE s.current_player

\* the loop of LegalActions
RECURSIVE LegalLoop(_, _, _)
LegalLoop(s, cell, moves) ==
  IF cell >= boardSize(s.base_size) THEN moves
  ELSE IF s.board[cell].player = kPlayerNone
    THEN LegalLoop(s, cell + 1, Append(moves, cell))
    ELSE LegalLoop(s, cell + 1, moves)

\* mutant of LegalActions: the terminal check is missing
LegalActions_NoTerminal(s) == LegalLoop(s, 0, <<>>)

\* std::vector<Action> GeodesicYState::LegalActions() const
LegalActions(s) == IF IsTerminal(s) THEN <<>> ELSE LegalLoop(s, 0, <<>>)

\* mutant of Returns: the two winners' values are exchanged
Returns_Swapped(s) ==
  IF s.outcome = kPlayer1 THEN <<-1, 1>>
  ELSE IF s.outcome = kPlayer2 THEN <<1, -1>>
  ELSE <<0, 0>>

\* std::vector<double> GeodesicYState::Returns() const
Returns(s) ==
  IF s.outcome = kPlayer1 THEN <<1, -1>>
  ELSE IF s.outcome = kPlayer2 THEN <<-1, 1>>
  ELSE <<0, 0>>

\* mutant of DoApplyAction: the stone is placed before the checks are made
DoApplyAction_LateCheck(s, action) ==
  IF s.fatal THEN s
  ELSE IF s.board[action].player # kPlayerNone \/ s.outcome # kPlayerNone
    THEN [s EXCEPT !.fatal = TRUE,
                   !.last_move = action,
                   !.board[action].player = s.current_player,
                   !.moves_made = U16(@ + 1)]
  ELSE
    LET b1 == [s.board EXCEPT ![action].player = s.current_player]
        b2 == JoinNeighbors(b1, getNeighbors(s.base_size)[action],
                            s.current_player, action, 1)
        b3 == FindGroupLeader(b2, action)
        won == b3[Leader(b2, action)].edge = AllEdges
    IN  [s EXCEPT !.last_move = action,
                  !.board = b3,
                  !.moves_made = U16(@ + 1),
                  !.outcome = IF won THEN s.current_player ELSE @,
                  !.current_player = IF @ = kPlayer1 THEN kPlayer2 ELSE kPlayer1]

\* mutant of DoApplyAction: the player to move is kept after a winning move
DoApplyAction_KeepWinner(s, action) ==
  IF s.fatal THEN s
  ELSE IF s.board[action].player # kPlayerNone THEN [s EXCEPT !.fatal = TRUE]
  ELSE IF s.outcome # kPlayerNone THEN [s EXCEPT !.fatal = TRUE]
  ELSE
    LET b1 == [s.board EXCEPT ![action].player = s.current_player]
        b2 == JoinNeighbors(b1, getNeighbors(s.base_size)[action],
                            s.current_player, action, 1)
        b3 == FindGroupLeader(b2, action)
        won == b3[Leader(b2, action)].edge = AllEdges
    IN  [s EXCEPT !.last_move = action,
                  !.board = b3,
                  !.moves_made = U16(@ + 1),
                  !.outcome = IF won THEN s.current_player ELSE @,
                  !.current_player = IF won THEN @
                                     ELSE IF @ = kPlayer1 THEN kPlayer2 ELSE kPlayer1]

\* mutant of DoApplyAction: a winning move sets the outcome to the other player
DoApplyAction_WrongWinner(s, action) ==
  IF s.fatal THEN s
  ELSE IF s.board[action].player # kPlayerNone THEN [s EXCEPT !.fatal = TRUE]
  ELSE IF s.outcome # kPlayerNone THEN [s EXCEPT !.fatal = TRUE]
  ELSE
    LET b1 == [s.board EXCEPT ![action].player = s.current_player]
        b2 == JoinNeighbors(b1, getNeighbors(s.base_size)[action],
                            s.current_player, action, 1)
        b3 == FindGroupLeader(b2, action)
        won == b3[Leader(b2, action)].edge = AllEdges
        next == IF s.current_player = kPlayer1 THEN kPlayer2 ELSE kPlayer1
    IN  [s EXCEPT !.last_move = action,
                  !.board = b3,
                  !.moves_made = U16(@ + 1),
                  !.outcome = IF won THEN next ELSE @,
                  !.current_player = next]

\* void GeodesicYState::DoApplyAction(Action action)
DoApplyAction(s, action) ==
  IF s.fatal THEN s
  ELSE IF s.board[action].player # kPlayerNone THEN [s EXCEPT !.fatal = TRUE]
  ELSE IF s.outcome # kPlayerNone THEN [s EXCEPT !.fatal = TRUE]
  ELSE
    LET b1 == [s.board EXCEPT ![action].player = s.current_player]
        b2 == JoinNeighbors(b1, getNeighbors(s.base_size)[action],
                            s.current_player, action, 1)
        b3 == FindGroupLeader(b2, action)
        won == b3[Leader(b2, action)].edge = AllEdges
    IN  [s EXCEPT !.last_move = action,
                  !.board = b3,
                  !.moves_made = U16(@ + 1),
                  !.outcome = IF won THEN s.current_player ELSE @,
                  !.current_player = IF @ = kPlayer1 THEN kPlayer2 ELSE kPlayer1]

\* State::ApplyAction: the move is recorded with the player who was to move
ApplyAction(s, action) ==
  LET player == CurrentPlayer(s)
      s1     == DoApplyAction(s, action)
  IN  IF s1.fatal THEN s1
      ELSE [s1 EXCEPT !.history = Append(@, <<player, action>>)]

\* void GeodesicYState::ResetBoard()
ResetBoard(s) ==
  PlaceStartingBoard([s EXCEPT !.current_player = s.starting_player,
                               !.outcome = kPlayerNone,
                               !.moves_made = 0,
                               !.last_move = boardSize(s.base_size),
                               !.board = EmptyBoard(s.base_size)], 0)

\* for (auto [_, action] : history_) DoApplyAction(action)
RECURSIVE Replay(_, _)
Replay(s, k) ==
  IF k > Len(s.history) THEN s
  ELSE Replay(DoApplyAction(s, s.history[k][2]), k + 1)

\* void GeodesicYState::UndoAction(Player player, Action move)
UndoAction(s) ==
  IF s.fatal THEN s
  ELSE Replay(ResetBoard([s EXCEPT !.history = SubSeq(@, 1, Len(@) - 1)]), 1)

\* mutant of PlayerRelative: the planes are those of Player1 for every observer
PlayerRelative_Absolute(state, current) ==
  IF state = kPlayer1 THEN 0
  ELSE IF state = kPlayer2 THEN 1
  ELSE 2

\* int PlayerRelative(GeodesicYPlayer state, Player current)
PlayerRelative(state, current) ==
  IF state = kPlayer1 THEN (IF current = 0 THEN 0 ELSE 1)
  ELSE IF state = kPlayer2 THEN (IF current = 1 THEN 0 ELSE 1)
  ELSE 2

\* the number of planes of the observation tensor
kCellStates == 3

\* void GeodesicYState::ObservationTensor(Player player, absl::Span<float> values):
\* the values are zeroed, then entry {PlayerRelative(...), i} of the
\* kCellStates x board_.size() view, at offset plane * board_.size() + i, is
\* set for every node i
RECURSIVE TensorLoop(_, _, _, _)
TensorLoop(s, player, i, values) ==
  IF i >= boardSize(s.base_size) THEN values
  ELSE TensorLoop(s, player, i + 1,
         [values EXCEPT ![PlayerRelative(s.board[i].player, player)
                            * boardSize(s.base_size) + i] = 1])

ObservationTensor(s, player) ==
  TensorLoop(s, player, 0,
             [k \in 0..(kCellStates * boardSize(s.base_size) - 1) |-> 0])

(***************************************************************************)
(* The parameters a GeodesicYGame object keeps for the states it creates.  *)
(***************************************************************************)
GameParams(base_size, starting_player, starting_board) ==
  [base_size |-> base_size, starting_player |-> starting_player,
   starting_board |-> starting_board]

(***************************************************************************)
(* Pure functions called on their own.                                     *)
(***************************************************************************)
CallIdle == [fn |-> "none", base_size |-> 0, node |-> 0, result |-> 0]

\* boardSize on the base_size parameter of a game
CallBoardSize ==
  /\ \E b \in 2..MaxCallBase :
       call' = [fn |-> "boardSize", base_size |-> b, node |-> 0,
                result |-> boardSize(b)]
  /\ UNCHANGED <<st, gen, game, procVars>>

\* getEdge on a node of a board
CallGetEdge ==
  /\ \E b \in 2..MaxBaseSize : \E node \in 0..(boardSize(b) - 1) :
       call' = [fn |-> "getEdge", base_size |-> b, node |-> node,
                result |-> getEdge(node, b)]
  /\ UNCHANGED <<st, gen, game, procVars>>

(***************************************************************************)
(* The process-wide cache neighbors_list, the threads that create states   *)
(* and the neighbors_ references the created states keep.                  *)
(***************************************************************************)
CacheEmpty == [list |-> <<>>, capacity |-> 0]

ThreadIdle == [pc |-> "idle", base_size |-> 0, created |-> 0]

NoCalls == [b \in 0..MaxCacheBase |-> 0]

ProcessIdle ==
  /\ cache = CacheEmpty
  /\ thr = [t \in {1} |-> ThreadIdle]
  /\ objs = <<>>
  /\ calls = NoCalls

\* the lists generateNeighbors returns for the sizes it completes on
Generated == [b \in 2..MaxCacheBase |-> generateNeighbors(b)]

\* generateNeighbors seeds nodes 0, 1 and 2 with at(): std::out_of_range when
\* the board has fewer nodes
GeneratorThrows(base_size) == boardSize(base_size) < 3

Max(a, b) == IF a >= b THEN a ELSE b

\* an uncaught exception or a crash ends the process
Alive == \A t \in DOMAIN thr : thr[t].pc \notin {"threw", "crashed"}

\* thread t is inside a write to neighbors_list
Writing(t) == thr[t].pc \in {"resizing", "assigning"}

\* another thread is inside a write to neighbors_list
Racing(t) == \E u \in DOMAIN thr \ {t} : Writing(u)

Goto(t, pc) == [thr EXCEPT ![t].pc = pc]

\* std::vector::resize(n): the elements kept, new ones empty
Resized(list, n) ==
  [k \in 1..n |-> IF k <= Len(list) THEN list[k] ELSE <<>>]

\* references into the cache after resize(n): a reallocation invalidates every
\* reference, a shrink the references to the destroyed elements
AfterResize(refs, n, reallocated) ==
  [k \in 1..Len(refs) |->
     IF reallocated \/ refs[k].base_size >= n
       THEN [refs[k] EXCEPT !.dangling = TRUE]
       ELSE refs[k]]

\* mutant of IsEmptyEntry: the entry is taken as empty every time
IsEmptyEntry_Always(list, board_size) == TRUE

\* neighbors_list.at(board_size).empty()
IsEmptyEntry(list, board_size) == list[board_size + 1] = <<>>

\* GeodesicYGame::GeodesicYGame: the parameters are stored as given
CreateGame ==
  /\ Alive
  /\ \E t \in DOMAIN thr :
       /\ thr[t].pc = "idle"
       /\ thr[t].created < MaxCreates
       /\ \E b \in 0..MaxCacheBase :
            thr' = [thr EXCEPT ![t].pc = "game", ![t].base_size = b]
  /\ UNCHANGED <<st, gen, call, game, cache, objs, calls>>

\* NewInitialState: the state's constructor reaches getNeighbors(base_size)
NewState ==
  /\ Alive
  /\ \E t \in DOMAIN thr :
       /\ thr[t].pc = "game"
       /\ thr' = Goto(t, "size")
  /\ UNCHANGED <<st, gen, call, game, cache, objs, calls>>

\* getNeighbors: board_size >= neighbors_list.size(); a read during another
\* thread's resize sees the size before or after it
GetSize ==
  /\ Alive
  /\ \E t \in DOMAIN thr :
       /\ thr[t].pc = "size"
       /\ \E n \in {Len(cache.list)} \cup
                   {thr[u].base_size + 1 :
                      u \in {v \in DOMAIN thr \ {t} : thr[v].pc = "resizing"}} :
            thr' = Goto(t, IF thr[t].base_size >= n THEN "resize" ELSE "empty")
  /\ UNCHANGED <<st, gen, call, game, cache, objs, calls>>

\* getNeighbors: neighbors_list.resize(board_size + 1) begins
BeginResize ==
  /\ Alive
  /\ \E t \in DOMAIN thr :
       /\ thr[t].pc = "resize"
       /\ thr' = Goto(t, "resizing")
  /\ UNCHANGED <<st, gen, call, game, cache, objs, calls>>

\* getNeighbors: neighbors_list.resize(board_size + 1) completes; growth past
\* the capacity reallocates, to the new size or to twice the old capacity
EndResize ==
  /\ Alive
  /\ \E t \in DOMAIN thr :
       /\ thr[t].pc = "resizing"
       /\ LET n == thr[t].base_size + 1
              reallocated == n > cache.capacity
          IN  /\ \E cap \in IF reallocated
                              THEN {n, Max(n, 2 * cache.capacity)}
                              ELSE {cache.capacity} :
                   cache' = [list |-> Resized(cache.list, n), capacity |-> cap]
              /\ objs' = AfterResize(objs, n, reallocated)
       /\ thr' = Goto(t, "empty")
  /\ UNCHANGED <<st, gen, call, game, calls>>

\* getNeighbors: neighbors_list.at(board_size).empty(); at() throws past the
\* end, a read during another thread's assignment of the entry sees either
CheckEmpty ==
  /\ Alive
  /\ \E t \in DOMAIN thr :
       /\ thr[t].pc = "empty"
       /\ IF thr[t].base_size >= Len(cache.list)
            THEN thr' = Goto(t, "threw")
            ELSE \E empty \in {IsEmptyEntry(cache.list, thr[t].base_size)} \cup
                     (IF \E u \in DOMAIN thr \ {t} :
                            /\ thr[u].pc = "assigning"
                            /\ thr[u].base_size = thr[t].base_size
                        THEN BOOLEAN ELSE {}) :
                   thr' = Goto(t, IF empty THEN "generate" ELSE "return")
  /\ UNCHANGED <<st, gen, call, game, cache, objs, calls>>

\* getNeighbors: the call generateNeighbors(board_size)
Generate ==
  /\ Alive
  /\ \E t \in DOMAIN thr :
       /\ thr[t].pc = "generate"
       /\ calls' = [calls EXCEPT ![thr[t].base_size] = @ + 1]
       /\ thr' = Goto(t, IF GeneratorThrows(thr[t].base_size)
                           THEN "threw" ELSE "assign")
  /\ UNCHANGED <<st, gen, call, game, cache, objs>>

\* getNeighbors: neighbors_list.at(board_size) = ... begins; at() throws past
\* the end
BeginAssign ==
  /\ Alive
  /\ \E t \in DOMAIN thr :
       /\ thr[t].pc = "assign"
       /\ thr' = Goto(t, IF thr[t].base_size >= Len(cache.list)
                           THEN "threw" ELSE "assigning")
  /\ UNCHANGED <<st, gen, call, game, cache, objs, calls>>

\* getNeighbors: the assignment completes; the entry may have been destroyed
\* by another thread's resize in the meantime
EndAssign ==
  /\ Alive
  /\ \E t \in DOMAIN thr :
       /\ thr[t].pc = "assigning"
       /\ IF thr[t].base_size >= Len(cache.list)
            THEN /\ \E pc \in {"return", "crashed"} : thr' = Goto(t, pc)
                 /\ UNCHANGED cache
            ELSE /\ cache' = [cache EXCEPT !.list[thr[t].base_size + 1] =
                                Generated[thr[t].base_size]]
                 /\ thr' = Goto(t, "return")
  /\ UNCHANGED <<st, gen, call, game, objs, calls>>

\* getNeighbors returns neighbors_list.at(board_size) and the constructor
\* binds neighbors_ to it
BindReference ==
  /\ Alive
  /\ \E t \in DOMAIN thr :
       /\ thr[t].pc = "return"
       /\ IF thr[t].base_size >= Len(cache.list)
            THEN /\ thr' = Goto(t, "threw")
                 /\ UNCHANGED objs
            ELSE /\ thr' = [thr EXCEPT ![t].pc = "idle", ![t].created = @ + 1]
                 /\ objs' = Append(objs, [base_size |-> thr[t].base_size,
                                          dangling |-> FALSE, clone |-> FALSE])
  /\ UNCHANGED <<st, gen, call, game, cache, calls>>

\* GeodesicYState::Clone: the copy's neighbors_ is bound to the same entry
CloneState ==
  /\ Alive
  /\ Cardinality({k \in 1..Len(objs) : objs[k].clone}) < MaxClones
  /\ \E k \in 1..Len(objs) :
       objs' = Append(objs, [objs[k] EXCEPT !.clone = TRUE])
  /\ UNCHANGED <<st, gen, call, game, cache, thr, calls>>

\* a write to neighbors_list that completes while another thread is inside
\* its own write can corrupt the heap
RaceCrash ==
  /\ Alive
  /\ \E t \in DOMAIN thr :
       /\ Writing(t)
       /\ Racing(t)
       /\ thr' = Goto(t, "crashed")
  /\ UNCHANGED <<st, gen, call, game, cache, objs, calls>>

(***************************************************************************)
(* The games played: construction parameters and the engine's operations.  *)
(***************************************************************************)
B(pos) == [player |-> "B", pos |-> pos]
W(pos) == [player |-> "W", pos |-> pos]

StartingBoards(base_size) ==
  IF base_size = 2 THEN {<<>>, <<W(1)>>, <<B(0), B(1)>>}
  ELSE {<<>>, <<B(3), B(4), W(6), W(7)>>, <<B(3), B(4), B(5)>>}

StartingPlayers == {"black", "white"}

Init ==
  /\ \E b \in GameSizes, p \in StartingPlayers :
       \E sb \in StartingBoards(b) :
         /\ st = NewInitialState(b, p, sb)
         /\ game = GameParams(b, p, sb)
  /\ gen = GenIdle
  /\ call = CallIdle
  /\ ProcessIdle

\* ApplyAction with any action id of the game
Apply ==
  /\ ~st.fatal
  /\ ~st.undefined
  /\ Len(st.history) < MaxMoves
  /\ \E action \in Nodes(st) : st' = ApplyAction(st, action)
  /\ UNCHANGED <<gen, call, game, procVars>>

\* UndoAction on a state with a recorded move
Undo ==
  /\ ~st.fatal
  /\ ~st.undefined
  /\ Len(st.history) > 0
  /\ st' = UndoAction(st)
  /\ UNCHANGED <<gen, call, game, procVars>>

Next == Apply \/ Undo

Spec == Init /\ [][Next]_vars

(***************************************************************************)
(* The topology generator on its own.                                      *)
(***************************************************************************)
InitTopo ==
  /\ st = NewInitialState(2, "black", <<>>)
  /\ game = GameParams(2, "black", <<>>)
  /\ gen = GenIdle
  /\ call = CallIdle
  /\ ProcessIdle

NextTopo == GenStart \/ GenCell \/ GenCopy \/ GenMirror \/ GenSort

SpecTopo == InitTopo /\ [][NextTopo]_vars

(***************************************************************************)
(* Every fill of the board: moves are applied until nothing is legal.      *)
(* DoApplyAction neither reads nor writes history_, which stays empty.     *)
(***************************************************************************)
InitFull ==
  /\ \E b \in GameSizes, p \in StartingPlayers :
       /\ st = NewInitialState(b, p, <<>>)
       /\ game = GameParams(b, p, <<>>)
  /\ gen = GenIdle
  /\ call = CallIdle
  /\ ProcessIdle

\* DoApplyAction with an action of LegalActions
Play ==
  /\ ~st.fatal
  /\ \E k \in 1..Len(LegalActions(st)) : st' = DoApplyAction(st, LegalActions(st)[k])
  /\ UNCHANGED <<gen, call, game, procVars>>

SpecFull == InitFull /\ [][Play]_vars

(***************************************************************************)
(* The size formula and the edge classifier on their own.                  *)
(***************************************************************************)
InitCall ==
  /\ st = NewInitialState(2, "black", <<>>)
  /\ game = GameParams(2, "black", <<>>)
  /\ gen = GenIdle
  /\ call = CallIdle
  /\ ProcessIdle

NextCall == CallBoardSize \/ CallGetEdge

SpecCall == InitCall /\ [][NextCall]_vars

(***************************************************************************)
(* One thread creating games and states one after the other.               *)
(***************************************************************************)
InitCache ==
  /\ st = NewInitialState(2, "black", <<>>)
  /\ game = GameParams(2, "black", <<>>)
  /\ gen = GenIdle
  /\ call = CallIdle
  /\ ProcessIdle

NextCache ==
  \/ CreateGame \/ NewState \/ GetSize \/ BeginResize \/ EndResize
  \/ CheckEmpty \/ Generate \/ BeginAssign \/ EndAssign \/ BindReference
  \/ CloneState

SpecCache == InitCache /\ [][NextCache]_vars

(***************************************************************************)
(* Two threads creating games and states at the same time.                 *)
(***************************************************************************)
InitRace ==
  /\ st = NewInitialState(2, "black", <<>>)
  /\ game = GameParams(2, "black", <<>>)
  /\ gen = GenIdle
  /\ call = CallIdle
  /\ cache = CacheEmpty
  /\ thr = [t \in {1, 2} |-> ThreadIdle]
  /\ objs = <<>>
  /\ calls = NoCalls

NextRace == NextCache \/ RaceCrash

SpecRace == InitRace /\ [][NextRace]_vars

(***************************************************************************)
(* Every starting_board of up to three entries, one move and its undo.     *)
(***************************************************************************)
StartLengths == 0..3

Entries(base_size) ==
  {B(pos) : pos \in 0..(boardSize(base_size) - 1)} \cup
  {W(pos) : pos \in 0..(boardSize(base_size) - 1)}

\* the entries listed by position; entries of one position in either order
AllStartingBoards(base_size) ==
  {sb \in UNION {[1..n -> Entries(base_size)] : n \in StartLengths} :
     \A i \in 1..(Len(sb) - 1) : sb[i].pos <= sb[i + 1].pos}

InitStart ==
  /\ \E b \in GameSizes, p \in StartingPlayers :
       \E sb \in AllStartingBoards(b) :
         /\ st = NewInitialState(b, p, sb)
         /\ game = GameParams(b, p, sb)
  /\ gen = GenIdle
  /\ call = CallIdle
  /\ ProcessIdle

\* ApplyAction on a state without recorded moves
ApplyFirst ==
  /\ ~st.fatal
  /\ st.history = <<>>
  /\ \E action \in Nodes(st) : st' = ApplyAction(st, action)
  /\ UNCHANGED <<gen, call, game, procVars>>

NextStart == ApplyFirst \/ Undo

SpecStart == InitStart /\ [][NextStart]_vars

(***************************************************************************)
(* UndoAction on a state without recorded moves: history_.pop_back() on an *)
(* empty vector is undefined.  A library built with assertions aborts      *)
(* before anything is changed; otherwise ResetBoard runs and the loop over *)
(* history_ reads outside the vector, ending the process at once or after  *)
(* it has applied what it read as an action.                               *)
(***************************************************************************)
UndoEmptyOutcomes(s) ==
  {[s EXCEPT !.fatal = TRUE]} \cup
  {[ResetBoard(s) EXCEPT !.undefined = TRUE]} \cup
  {[DoApplyAction(ResetBoard(s), action) EXCEPT !.undefined = TRUE] :
     action \in Nodes(s)}

UndoEmpty ==
  /\ ~st.fatal
  /\ ~st.undefined
  /\ st.history = <<>>
  /\ st' \in UndoEmptyOutcomes(st)
  /\ UNCHANGED <<gen, call, game, procVars>>

NextUndo == Apply \/ Undo \/ UndoEmpty

SpecUndo == Init /\ [][NextUndo]_vars

(***************************************************************************)
(* The adjacency graph and the groups of stones in it.                     *)
(***************************************************************************)
Adjacent(s, a, b) ==
  \E k \in 1..Len(getNeighbors(s.base_size)[a]) : getNeighbors(s.base_size)[a][k] = b

Occupied(s) == {n \in Nodes(s) : s.board[n].player # kPlayerNone}

\* the cells joined to the cells of `set` by paths of adjacent cells of one owner
RECURSIVE Grow(_, _, _)
Grow(s, owner, set) ==
  LET more == {n \in Nodes(s) : /\ s.board[n].player = owner
                                /\ \E m \in set : Adjacent(s, m, n)}
  IN  IF more \subseteq set THEN set ELSE Grow(s, owner, set \cup more)

Component(s, x) == Grow(s, s.board[x].player, {x})

HasEdge(mask, bit) == (mask \div bit) % 2 = 1

TouchesAllEdges(s, set) ==
  \A bit \in {kRight, kBottom, kLeft} :
    \E n \in set : HasEdge(getEdge(n, s.base_size), bit)

OwnsWinningGroup(s, p) ==
  \E x \in Nodes(s) : s.board[x].player = p /\ TouchesAllEdges(s, Component(s, x))

\* C1: the outcome is player p exactly when p owns a connected set of stones
\* with nodes of all three edge arcs, the game is in progress exactly when
\* nobody does, and two occupied cells have the same leader exactly when a
\* path of adjacent cells of one owner joins them.
C1_WinIffConnectedGroup ==
  ~st.fatal =>
    /\ \A p \in {kPlayer1, kPlayer2} : (st.outcome = p) <=> OwnsWinningGroup(st, p)
    /\ (st.outcome = kPlayerNone) <=>
         ~(OwnsWinningGroup(st, kPlayer1) \/ OwnsWinningGroup(st, kPlayer2))
    /\ \A x \in Occupied(st) :
         LET comp == Component(st, x)
         IN  \A y \in Occupied(st) :
               (Leader(st.board, x) = Leader(st.board, y)) <=> (y \in comp)

\* a win on the base-3 board by a group of three or more stones, after an undo
\* has replayed the game
C1_Witness ==
  /\ ~st.fatal
  /\ st.base_size = 3
  /\ st.outcome # kPlayerNone
  /\ Len(st.history) >= 1
  /\ Cardinality(Component(st, st.last_move)) >= 3
  /\ st.board[Leader(st.board, st.last_move)].edge = AllEdges

\* C2: no draw: a board with every node occupied has a winner, so the game is
\* over after at most boardSize(base_size) moves, and LegalActions is empty
\* only in a terminal state.
C2_NoDraw ==
  ~st.fatal =>
    /\ (Occupied(st) = Nodes(st)) => IsTerminal(st)
    /\ (LegalActions(st) = <<>>) => IsTerminal(st)
    /\ st.moves_made <= boardSize(st.base_size)

\* a base-3 board filled to the last node, won on the ninth move
C2_Witness ==
  /\ st.base_size = 3
  /\ Occupied(st) = Nodes(st)
  /\ st.moves_made = 9
  /\ IsTerminal(st)

(***************************************************************************)
(* Turn order.                                                             *)
(***************************************************************************)
Other(p) == IF p = kPlayer1 THEN kPlayer2 ELSE kPlayer1

\* C3: in a game configured with starting player s the first move places a
\* stone for s and the players alternate on every later move: the k-th
\* recorded move is a stone of s when k is odd and of the other player when k
\* is even.
C3_StartingPlayerMovesFirst ==
  ~st.fatal =>
    \A k \in 1..Len(st.history) :
      st.board[st.history[k][2]].player =
        IF k % 2 = 1 THEN st.starting_player ELSE Other(st.starting_player)

(***************************************************************************)
(* Undo and replay.                                                        *)
(***************************************************************************)
\* what two states are compared in: cell owners, group membership, player to
\* move, outcome and legal actions
View(s) ==
  [owners  |-> [n \in Nodes(s) |-> s.board[n].player],
   groups  |-> [x \in Occupied(s) |->
                  {y \in Occupied(s) : Leader(s.board, y) = Leader(s.board, x)}],
   to_move |-> s.current_player,
   outcome |-> s.outcome,
   legal   |-> LegalActions(s)]

\* C4: undo is the inverse of applyMove: whenever a legal action is applied
\* to a reachable state, undoing it gives back the cell owners, the groups, the
\* player to move, the outcome and the legal actions of that state.
C4_UndoInvertsApply ==
  [][(~st.fatal /\ ~st'.fatal /\ Len(st'.history) = Len(st.history) + 1)
       => View(UndoAction(st')) = View(st)]_vars

\* the state a fresh game with the construction parameters of s starts in
Fresh(s) == Construct(s.base_size, s.starting_player, s.starting_board, FALSE)

RECURSIVE ApplyAll(_, _, _)
ApplyAll(s, actions, k) ==
  IF k > Len(actions) THEN s ELSE ApplyAll(ApplyAction(s, actions[k]), actions, k + 1)

RECURSIVE UndoAll(_)
UndoAll(s) == IF s.fatal \/ s.history = <<>> THEN s ELSE UndoAll(UndoAction(s))

\* C5: applying k legal moves to a fresh game, undoing all k and replaying
\* the same k actions reaches the cell owners, the groups and the outcome that
\* applying the k moves once reaches.
C5_UndoAllThenReplay ==
  ~st.fatal =>
    LET actions == [k \in 1..Len(st.history) |-> st.history[k][2]]
        direct  == ApplyAll(Fresh(st), actions, 1)
        again   == ApplyAll(UndoAll(direct), actions, 1)
    IN  ~direct.fatal =>
          /\ ~again.fatal
          /\ View(again).owners = View(direct).owners
          /\ View(again).groups = View(direct).groups
          /\ View(again).outcome = View(direct).outcome

(***************************************************************************)
(* Legal actions and preconditions.                                        *)
(***************************************************************************)
Elements(seq) == {seq[k] : k \in 1..Len(seq)}

StrictlyIncreasing(seq) == \A k \in 1..(Len(seq) - 1) : seq[k] < seq[k + 1]

\* C6: LegalActions is the sequence of the unoccupied nodes in strictly
\* increasing order while the game is in progress, with no node of the
\* starting occupancy in it, and empty once the game is over; a new empty
\* base-3 game has the legal actions 0, 1, ..., 8.
C6_LegalActions ==
  ~st.fatal =>
    /\ IsTerminal(st) => LegalActions(st) = <<>>
    /\ ~IsTerminal(st) =>
         /\ Elements(LegalActions(st)) = Nodes(st) \ Occupied(st)
         /\ StrictlyIncreasing(LegalActions(st))
         /\ \A n \in Nodes(st) :
              st.starting_board[n] # kPlayerNone => n \notin Elements(LegalActions(st))
    /\ (st.base_size = 3 /\ st.history = <<>> /\ Occupied(st) = {})
         => LegalActions(st) = <<0, 1, 2, 3, 4, 5, 6, 7, 8>>

\* a game in progress on a board with a starting occupancy, and moves made
C6_Witness ==
  /\ ~st.fatal
  /\ ~IsTerminal(st)
  /\ st.base_size = 3
  /\ \E n \in Nodes(st) : st.starting_board[n] # kPlayerNone
  /\ Len(st.history) = 3
  /\ Len(LegalActions(st)) = 2

\* C7: applyMove on an occupied node, or on any node of a terminal state,
\* fails before anything is changed, and every action of LegalActions meets
\* both preconditions and is applied.
C7_IllegalMoveChangesNothing ==
  ~st.fatal =>
    /\ \A a \in Nodes(st) :
         (st.board[a].player # kPlayerNone \/ st.outcome # kPlayerNone)
           => ApplyAction(st, a) = [st EXCEPT !.fatal = TRUE]
    /\ \A a \in Elements(LegalActions(st)) :
         /\ st.board[a].player = kPlayerNone
         /\ st.outcome = kPlayerNone
         /\ ~ApplyAction(st, a).fatal

\* a move was applied to a terminal state with stones on the board, and failed
C7_Witness ==
  /\ st.fatal
  /\ IsTerminal(st)
  /\ Len(st.history) >= 2
  /\ st.moves_made = Len(st.history)

(***************************************************************************)
(* The base-2 board and the returns.                                       *)
(***************************************************************************)
StonesOf(s, p) == {n \in Nodes(s) : s.board[n].player = p}

\* C8 as claimed: on the base-2 board the first move, by Player1, ends the
\* game for Player1 with returns (1, -1).
C8_FirstMoveWinsBase2 ==
  (/\ ~st.fatal
   /\ st.base_size = 2
   /\ st.moves_made = 1
   /\ Cardinality(StonesOf(st, kPlayer1)) = 1
   /\ StonesOf(st, kPlayer2) = {})
    => (st.outcome = kPlayer1 /\ Returns(st) = <<1, -1>>)

\* C8 amended: every node of the base-2 board touches exactly two edges, so
\* the first move by Player1 leaves the game in progress with returns (0, 0),
\* and the game is Terminal(Player1) with returns (1, -1) as soon as Player1
\* has a second stone on the board.
C8_SecondStoneWinsBase2 ==
  (~st.fatal /\ st.base_size = 2) =>
    /\ \A n \in Nodes(st) : getEdge(n, 2) \in {3, 5, 6}
    /\ (/\ st.moves_made = 1
        /\ Cardinality(StonesOf(st, kPlayer1)) = 1
        /\ StonesOf(st, kPlayer2) = {})
         => (st.outcome = kPlayerNone /\ Returns(st) = <<0, 0>>)
    /\ Cardinality(StonesOf(st, kPlayer1)) >= 2
         => (st.outcome = kPlayer1 /\ Returns(st) = <<1, -1>>)

\* Player1 has won a base-2 game on the third move with its second stone
C8_Witness ==
  /\ ~st.fatal
  /\ st.base_size = 2
  /\ st.moves_made = 3
  /\ Cardinality(StonesOf(st, kPlayer1)) = 2
  /\ st.outcome = kPlayer1

\* C9: the returns are (1, -1) exactly when Player1 has won, (-1, 1) exactly
\* when Player2 has won, and (0, 0) exactly while the game is in progress; the
\* two values sum to 0.
C9_Returns ==
  ~st.fatal =>
    /\ (Returns(st) = <<1, -1>>) <=> (st.outcome = kPlayer1)
    /\ (Returns(st) = <<-1, 1>>) <=> (st.outcome = kPlayer2)
    /\ (Returns(st) = <<0, 0>>) <=> ~IsTerminal(st)
    /\ (st.outcome = kPlayer1) <=> OwnsWinningGroup(st, kPlayer1)
    /\ (st.outcome = kPlayer2) <=> OwnsWinningGroup(st, kPlayer2)
    /\ Returns(st)[1] + Returns(st)[2] = 0

\* Player2 has won by a move
C9_Witness ==
  /\ ~st.fatal
  /\ st.outcome = kPlayer2
  /\ Len(st.history) >= 1
  /\ Returns(st) = <<-1, 1>>

(***************************************************************************)
(* The generated adjacency list.                                           *)
(***************************************************************************)
Symmetric(nb) ==
  \A a \in DOMAIN nb : \A b \in DOMAIN nb :
    (b \in Elements(nb[a])) <=> (a \in Elements(nb[b]))

\* C10: the adjacency list generateNeighbors returns is symmetric: b is a
\* neighbour of a exactly when a is a neighbour of b.
C10_AdjacencySymmetric ==
  gen.pc = "done" =>
    /\ DOMAIN gen.symmetric = 0..(boardSize(gen.base_size) - 1)
    /\ \A a \in DOMAIN gen.symmetric : Elements(gen.symmetric[a]) \subseteq DOMAIN gen.symmetric
    /\ Symmetric(gen.symmetric)

\* a finished run for a board with rings, whose links were one-directional
\* before the mirroring
C10_Witness ==
  /\ gen.pc = "done"
  /\ gen.base_size >= 3
  /\ ~Symmetric(gen.neighbors)

(***************************************************************************)
(* Board size, edge masks and degrees.                                     *)
(***************************************************************************)
NodeCount(base_size) == (3 * base_size * (base_size - 1)) \div 2

\* C11: for every base_size >= 2 boardSize returns the node count
\* 3*base_size*(base_size-1)/2, and the adjacency list and the cell array
\* are resized to that length.
C11_BoardSize ==
  call.fn = "boardSize" =>
    /\ call.result = NodeCount(call.base_size)
    /\ call.base_size <= MaxBaseSize =>
         /\ DOMAIN SeedTriangle(call.base_size) = 0..(NodeCount(call.base_size) - 1)
         /\ DOMAIN EmptyBoard(call.base_size) = 0..(NodeCount(call.base_size) - 1)

BitCount(mask) == Cardinality({bit \in {kRight, kBottom, kLeft} : HasEdge(mask, bit)})

\* C12: getEdge sets RIGHT iff top <= node <= right, BOTTOM iff
\* right <= node <= left and LEFT iff node >= left or node = top, for the
\* corners top, right, left of the outer ring; so a node inside the outer ring
\* has mask 0, each corner has exactly two bits, every other node of the outer
\* ring exactly one bit, and no node has all three.
C12_EdgeMasks ==
  call.fn = "getEdge" =>
    LET top   == NodeCount(call.base_size - 1)
        right == top + (call.base_size - 1)
        left  == top + 2 * (call.base_size - 1)
        node  == call.node
        mask  == call.result
    IN  /\ HasEdge(mask, kRight) <=> (top <= node /\ node <= right)
        /\ HasEdge(mask, kBottom) <=> (right <= node /\ node <= left)
        /\ HasEdge(mask, kLeft) <=> (node >= left \/ node = top)
        /\ node < top => mask = kNone
        /\ node \in {top, right, left} => BitCount(mask) = 2
        /\ (node >= top /\ node \notin {top, right, left}) => BitCount(mask) = 1
        /\ BitCount(mask) < 3

\* getEdge called on the top corner of a board with rings: RIGHT and LEFT
C12_Witness ==
  /\ call.fn = "getEdge"
  /\ call.base_size = 4
  /\ call.node = NodeCount(3)
  /\ call.result = BitOr(kRight, kLeft)

\* C13: for every base_size >= 3 every node of the list generateNeighbors
\* returns has between 3 and 6 neighbours.
C13_DegreeBounds ==
  (gen.pc = "done" /\ gen.base_size >= 3) =>
    \A n \in DOMAIN gen.symmetric :
      /\ 3 <= Len(gen.symmetric[n]) /\ Len(gen.symmetric[n]) <= 6
      /\ 3 <= Cardinality(Elements(gen.symmetric[n]))

\* a finished run on a board with a node of 3 and a node of 6 neighbours
C13_Witness ==
  /\ gen.pc = "done"
  /\ gen.base_size >= 4
  /\ \E n \in DOMAIN gen.symmetric : Len(gen.symmetric[n]) = 3
  /\ \E n \in DOMAIN gen.symmetric : Len(gen.symmetric[n]) = 6

(***************************************************************************)
(* Starting boards.                                                        *)
(***************************************************************************)
NoWinningGroup(s) ==
  ~OwnsWinningGroup(s, kPlayer1) /\ ~OwnsWinningGroup(s, kPlayer2)

NotWon(s) == s.fatal \/ (s.outcome = kPlayerNone /\ NoWinningGroup(s))

\* C14: a starting board never satisfies the win condition: the construction
\* of a state, and every reset of the board made by an undo, either fails
\* fatally or gives a state in progress in which no group of either player
\* touches all three edges.
C14_StartNeverWon ==
  /\ st.history = <<>> => NotWon(st)
  /\ ~st.fatal => NotWon(ResetBoard(st))

\* a board with starting stones, reset by the undo of a move
C14_Witness ==
  /\ ~st.fatal
  /\ st.history = <<>>
  /\ Occupied(st) # {}
  /\ st.starting_player = kPlayer2
  /\ st.current_player = kPlayer2

HasDuplicate(split) ==
  \E i \in 1..Len(split) : \E j \in 1..Len(split) :
    i # j /\ split[i].pos = split[j].pos

\* C15: a starting_board that names a position more than once, for the same
\* player or for both, is rejected with a fatal error when the state is
\* constructed.
C15_DuplicateRejected ==
  (st.history = <<>> /\ HasDuplicate(game.starting_board)) => st.fatal

(***************************************************************************)
(* Degenerate sizes, undo without moves, and the adjacency cache.          *)
(***************************************************************************)
\* C16: a game with base_size < 2 is rejected when it is created: no such
\* game exists, and generateNeighbors is never called with such a size.
C16_SmallBaseRejected ==
  /\ \A t \in DOMAIN thr : thr[t].base_size < 2 => thr[t].pc = "idle"
  /\ \A b \in 0..1 : calls[b] = 0

\* C17: UndoAction on a state without recorded moves is detected and reported
\* as a fatal error, and leaves the board, the player to move and the outcome
\* as they were.
C17_UndoOnEmptyRejected ==
  [][(~st.fatal /\ st.history = <<>> /\ st'.history = <<>> /\ st' # st) =>
       (st'.fatal /\ ~st'.undefined /\ View(st') = View(st))]_vars

\* C18: the adjacency list a state refers to stays valid and unchanged while
\* games of other sizes are created, also when the cache grows: no neighbors_
\* reference of a state or of a clone dangles, and each still reads the list
\* generated for its base_size.
C18_ReferencesStayValid ==
  \A k \in 1..Len(objs) :
    /\ ~objs[k].dangling
    /\ cache.list[objs[k].base_size + 1] = Generated[objs[k].base_size]

\* C19: in a sequence of state creations in one process generateNeighbors is
\* called at most once for each base_size >= 2; later states of that size
\* use the cached list.
C19_GeneratedOnce ==
  /\ \A b \in 2..MaxCacheBase : calls[b] <= 1
  /\ \A k \in 1..Len(objs) : calls[objs[k].base_size] = 1

\* two states of one size were created, the second from the cached list
C19_Witness ==
  \E i \in 1..Len(objs) : \E j \in 1..Len(objs) :
    /\ i # j
    /\ ~objs[i].clone /\ ~objs[j].clone
    /\ objs[i].base_size = objs[j].base_size
    /\ calls[objs[i].base_size] = 1

\* C20: two threads creating the first state of one uncached base_size >= 2
\* are serialized: the list is generated once, and neither thread is inside
\* a resize or an assignment of the cache while the other is inside one.
C20_GenerationSerialized ==
  /\ \A b \in 2..MaxCacheBase : calls[b] <= 1
  /\ \A t \in DOMAIN thr : \A u \in DOMAIN thr \ {t} :
       (thr[t].base_size >= 2 /\ thr[u].base_size = thr[t].base_size) =>
         ~(Writing(t) /\ Writing(u))

(***************************************************************************)
(* Observations.                                                           *)
(***************************************************************************)
\* C21: for each player p the observation tensor has 3*N entries in three
\* planes of N: for every node exactly one plane holds 1, plane 0 iff p owns
\* the node, plane 1 iff the opponent of p owns it, plane 2 iff it is empty.
C21_ObservationPlanes ==
  \A p \in {kPlayer1, kPlayer2} :
    LET values == ObservationTensor(st, p)
        N      == Cardinality(Nodes(st))
        One(b) == IF b THEN 1 ELSE 0
    IN  /\ DOMAIN values = 0..(3 * N - 1)
        /\ \A n \in Nodes(st) :
             /\ values[n] = One(st.board[n].player = p)
             /\ values[N + n] = One(st.board[n].player = Other(p))
             /\ values[2 * N + n] = One(st.board[n].player = kPlayerNone)
             /\ values[n] + values[N + n] + values[2 * N + n] = 1

\* a board after a move with stones of both players and an empty node
C21_Witness ==
  /\ ~st.fatal
  /\ Len(st.history) > 0
  /\ \A q \in {kPlayer1, kPlayer2, kPlayerNone} :
       \E n \in Nodes(st) : st.board[n].player = q
  /\ ObservationTensor(st, kPlayer1) # ObservationTensor(st, kPlayer2)

(***************************************************************************)
(* The union-find embedded in the board.                                   *)
(***************************************************************************)
\* the cells whose parent is the cell itself
SelfParented(s) == {n \in Nodes(s) : s.board[n].parent = n}

RECURSIVE SumOfSizes(_, _)
SumOfSizes(s, cells) ==
  IF cells = {} THEN 0
  ELSE LET n == CHOOSE m \in cells : TRUE
       IN  s.board[n].size + SumOfSizes(s, cells \ {n})

\* C22 as stated: the sum of size over the cells that are their own parent
\* equals the number of occupied cells.
C22_SizeSumOverSelfParented ==
  SumOfSizes(st, SelfParented(st)) = Cardinality(Occupied(st))

\* C22: the sum of size over the occupied cells that are their own parent
\* equals the number of occupied cells; every empty cell is its own parent
\* with size 1, so over all cells that are their own parent the sum is the
\* number of nodes.
C22_SizeSumOverOccupiedLeaders ==
  /\ SumOfSizes(st, SelfParented(st) \cap Occupied(st)) = Cardinality(Occupied(st))
  /\ \A n \in Nodes(st) \ Occupied(st) :
       st.board[n].parent = n /\ st.board[n].size = 1
  /\ SumOfSizes(st, SelfParented(st)) = Cardinality(Nodes(st))

\* a board after a move with a group of two or more stones and empty nodes
C22_Witness ==
  /\ ~st.fatal
  /\ Len(st.history) > 0
  /\ \E n \in SelfParented(st) \cap Occupied(st) : st.board[n].size >= 2
  /\ Occupied(st) # Nodes(st)

\* the cell reached from `cell` by k steps along the parent pointers
RECURSIVE Ancestor(_, _, _)
Ancestor(s, cell, k) ==
  IF k = 0 THEN cell ELSE Ancestor(s, s.board[cell].parent, k - 1)

\* the end of the parent chain of `cell`, where the chain has one
ChainEnd(s, cell) == Ancestor(s, cell, Cardinality(Nodes(s)))

\* the cells whose parent chain ends at `leader`
Members(s, leader) == {y \in Nodes(s) : ChainEnd(s, y) = leader}

RECURSIVE OrOfEdges(_, _)
OrOfEdges(s, cells) ==
  IF cells = {} THEN kNone
  ELSE LET n == CHOOSE m \in cells : TRUE
       IN  BitOr(getEdge(n, s.base_size), OrOfEdges(s, cells \ {n}))

\* C23: for every occupied cell x the leader FindGroupLeader(x) returns holds
\* exact group data: its size is the number of cells whose parent chain ends
\* at it, and its edge is the bitwise OR of the masks getEdge gives those
\* cells.
C23_LeaderHoldsGroupData ==
  \A x \in Occupied(st) :
    LET L == Leader(st.board, x)
    IN  /\ st.board[L].size = Cardinality(Members(st, L))
        /\ st.board[L].edge = OrOfEdges(st, Members(st, L))

\* a group of several stones whose leader's mask has a bit that the leader's
\* own node does not have
C23_Witness ==
  /\ ~st.fatal
  /\ Len(st.history) > 0
  /\ \E x \in Occupied(st) :
       LET L == Leader(st.board, x)
       IN  /\ st.board[L].size >= 2
           /\ st.board[L].edge # getEdge(L, st.base_size)

\* some cell on the parent chain of `cell` is its own parent
ChainTerminates(s, cell) ==
  \E k \in 0..Cardinality(Nodes(s)) :
    LET a == Ancestor(s, cell, k) IN s.board[a].parent = a

\* C24: the parent pointers have no cycle but the self-loops of the leaders,
\* so FindGroupLeader terminates on every node with a cell that is its own
\* parent; it is idempotent, and a call changes nothing but the parent of the
\* cell it is called on: no owner, size, edge or other parent, and no cell's
\* group.
C24_FindGroupLeaderSound ==
  /\ \A x \in Nodes(st) : ChainTerminates(st, x)
  /\ \A x \in Nodes(st) :
       LET L     == Leader(st.board, x)
           after == FindGroupLeader(st.board, x)
       IN  /\ st.board[L].parent = L
           /\ L = ChainEnd(st, x)
           /\ Leader(st.board, L) = L
           /\ Leader(after, L) = L
           /\ after[x].parent = L
           /\ \A y \in Nodes(st) :
                /\ after[y].player = st.board[y].player
                /\ after[y].size = st.board[y].size
                /\ after[y].edge = st.board[y].edge
                /\ y # x => after[y].parent = st.board[y].parent
                /\ Leader(after, y) = Leader(st.board, y)

\* a cell whose parent is not its leader: FindGroupLeader compresses its path
C24_Witness ==
  /\ ~st.fatal
  /\ \E x \in Occupied(st) :
       /\ st.board[x].parent # x
       /\ st.board[x].parent # Leader(st.board, x)
       /\ FindGroupLeader(st.board, x) # st.board

\* C25: JoinGroups(a, b) returns true and leaves the leader of every cell and
\* the size and edge of every leader unchanged when a and b have one leader;
\* otherwise it returns false and puts the leader of the strictly smaller
\* group under the leader of the larger one, and with equal sizes the leader
\* of b under the leader of a.
C25_JoinGroups ==
  \A a \in Nodes(st) : \A b \in Nodes(st) :
    LET la       == Leader(st.board, a)
        lb       == Leader(st.board, b)
        after    == JoinGroups(st.board, a, b)
        returned == AlreadyJoined(st.board, a, b)
        child    == IF st.board[la].size < st.board[lb].size THEN la ELSE lb
        root     == IF st.board[la].size < st.board[lb].size THEN lb ELSE la
    IN  IF la = lb
          THEN /\ returned
               /\ \A y \in Nodes(st) :
                    /\ Leader(after, y) = Leader(st.board, y)
                    /\ after[y].size = st.board[y].size
                    /\ after[y].edge = st.board[y].edge
          ELSE /\ ~returned
               /\ after[child].parent = root
               /\ after[root].parent = root
               /\ \A y \in Nodes(st) :
                    Leader(after, y) =
                      IF Leader(st.board, y) \in {la, lb} THEN root
                      ELSE Leader(st.board, y)

\* two groups of the same player where a's is strictly smaller than b's, and
\* two of equal size
C25_Witness ==
  /\ ~st.fatal
  /\ \E a \in Occupied(st) : \E b \in Occupied(st) :
       /\ st.board[a].player = st.board[b].player
       /\ st.board[Leader(st.board, a)].size < st.board[Leader(st.board, b)].size
       /\ JoinGroups(st.board, a, b)[Leader(st.board, a)].parent = Leader(st.board, b)
  /\ \E a \in Occupied(st) : \E b \in Occupied(st) :
       /\ Leader(st.board, a) # Leader(st.board, b)
       /\ st.board[Leader(st.board, a)].size = st.board[Leader(st.board, b)].size
       /\ JoinGroups(st.board, a, b)[Leader(st.board, b)].parent = Leader(st.board, a)

(***************************************************************************)
(* Moves, outcome and history.                                             *)
(***************************************************************************)
\* a step that applied a move
Applied == ~st.fatal /\ ~st'.fatal /\ Len(st'.history) = Len(st.history) + 1

\* C26 as stated: DoApplyAction alternates current_player_ only when the move
\* does not end the game: after a winning move the outcome is the mover and
\* current_player_ is still the mover; after any other move the game is in
\* progress and current_player_ is the other player.
C26_WinnerKeepsTurn ==
  [][Applied =>
       IF st'.outcome # kPlayerNone
         THEN st'.outcome = st.current_player /\ st'.current_player = st.current_player
         ELSE st'.current_player = Other(st.current_player)]_vars

\* C26: DoApplyAction alternates current_player_ after every move: after a
\* winning move the outcome is the mover and current_player_ is the other
\* player, CurrentPlayer() being the terminal id; after any other move the
\* game is in progress and current_player_ is the other player.
C26_TurnAlwaysAlternates ==
  [][Applied =>
       /\ st'.current_player = Other(st.current_player)
       /\ st'.outcome \in {kPlayerNone, st.current_player}
       /\ st'.outcome # kPlayerNone => CurrentPlayer(st') = -4
       /\ st'.outcome = kPlayerNone => CurrentPlayer(st') = Other(st.current_player)]_vars

\* a game won by the move just applied
C26_Witness ==
  /\ ~st.fatal
  /\ Len(st.history) > 0
  /\ st.outcome # kPlayerNone
  /\ st.board[st.last_move].player = st.outcome
  /\ st.current_player = Other(st.outcome)

(***************************************************************************)
(* The rings of the generated board.                                       *)
(***************************************************************************)
\* the nodes of ring r, clockwise from its top corner
RingNodes(r) == NodeCount(r - 1)..(NodeCount(r) - 1)

\* the three corners of ring r: top, right, left
Corner(r, k) == NodeCount(r - 1) + k * (r - 1)

Corners(r) == {Corner(r, k) : k \in 0..2}

ClockwiseNext(r, n) == IF n = NodeCount(r) - 1 THEN NodeCount(r - 1) ELSE n + 1

\* C27: in the generated board, for every ring r >= 3, the 3*(r-1) nodes of
\* the ring form a single cycle, each node adjacent to its clockwise successor
\* and the last node to the first; each corner is adjacent to exactly one node
\* of ring r-1, the corresponding corner, and every other node of the ring to
\* exactly two nodes of ring r-1; the branch throwing "unknown cell" is never
\* reached.
C27_RingStructure ==
  /\ gen.pc # "threw"
  /\ gen.pc = "done" =>
       \A r \in 3..gen.base_size :
         /\ Cardinality(RingNodes(r)) = 3 * (r - 1)
         /\ \A n \in RingNodes(r) :
              LET nbrs == Elements(gen.symmetric[n])
              IN  /\ ClockwiseNext(r, n) \in nbrs
                  /\ Cardinality(nbrs \cap RingNodes(r)) = 2
                  /\ n \notin Corners(r) =>
                       Cardinality(nbrs \cap RingNodes(r - 1)) = 2
         /\ \A k \in 0..2 :
              Elements(gen.symmetric[Corner(r, k)]) \cap RingNodes(r - 1)
                = {Corner(r - 1, k)}

\* a finished run on a board with three rings around the inner triangle
C27_Witness ==
  /\ gen.pc = "done"
  /\ gen.base_size = 5
  /\ Corner(5, 2) \in Elements(gen.symmetric[Corner(4, 2)])

\* C28: for every base_size >= 2 each node's vector in the list
\* generateNeighbors returns is sorted in strictly increasing order: no entry
\* occurs twice, and the node itself does not occur.
C28_SortedNoDuplicates ==
  gen.pc = "done" =>
    \A n \in DOMAIN gen.symmetric :
      /\ StrictlyIncreasing(gen.symmetric[n])
      /\ Cardinality(Elements(gen.symmetric[n])) = Len(gen.symmetric[n])
      /\ n \notin Elements(gen.symmetric[n])

\* a finished run in which the mirroring loop had left a vector out of order
C28_Witness ==
  /\ gen.pc = "done"
  /\ \E n \in DOMAIN gen.symmetric :
       ~StrictlyIncreasing(MirrorLoop(gen.neighbors, gen.neighbors, 0)[n])

\* the players owning a group whose leader's mask is RIGHT|BOTTOM|LEFT
Winners(s) ==
  {p \in {kPlayer1, kPlayer2} :
     \E x \in Nodes(s) :
       s.board[x].player = p /\ s.board[Leader(s.board, x)].edge = AllEdges}

\* C29: at most one player owns a group whose mask is RIGHT|BOTTOM|LEFT; that
\* player placed the stone of the most recent move and is the outcome; and
\* once the outcome is set, applying a move to any node fails and changes
\* neither the outcome nor a cell.
C29_SingleWinner ==
  ~st.fatal =>
    /\ Cardinality(Winners(st)) <= 1
    /\ \A p \in Winners(st) :
         /\ st.moves_made > 0
         /\ st.board[st.last_move].player = p
         /\ st.outcome = p
    /\ st.outcome # kPlayerNone =>
         /\ st.outcome \in Winners(st)
         /\ \A a \in Nodes(st) :
              LET after == ApplyAction(st, a)
              IN  /\ after.fatal
                  /\ after.outcome = st.outcome
                  /\ after.board = st.board

\* a game won by the last recorded move, with empty nodes left
C29_Witness ==
  /\ ~st.fatal
  /\ st.outcome # kPlayerNone
  /\ Len(st.history) > 0
  /\ st.history[Len(st.history)][2] = st.last_move
  /\ Winners(st) = {st.outcome}
  /\ Occupied(st) # Nodes(st)

\* C30: every recorded history entry (p, a) agrees with the board, also after
\* undos: node a is owned by p; the occupied nodes that are not starting
\* stones are as many as the recorded moves and as the move counter.
C30_HistoryAgreesWithBoard ==
  ~st.fatal =>
    /\ \A k \in 1..Len(st.history) :
         st.board[st.history[k][2]].player = st.history[k][1]
    /\ Cardinality({n \in Occupied(st) : st.starting_board[n] = kPlayerNone})
         = Len(st.history)
    /\ st.moves_made = Len(st.history)
=============================================================================
